---- MODULE Spec2Model ----
(***************************************************************************)
(* Incremental replication Postgres -> Snowflake of                        *)
(* src/airflow/postgres_to_snowflake.py.                                   *)
(*                                                                         *)
(* For every configured table the DAG runs two tasks in sequence:          *)
(*   get_max_primary_key(table)         reads MAX(ID_<table>) in Snowflake *)
(*   load_incremental_data(table, max)  discovers the columns in Postgres, *)
(*                                      fetches the rows with ID > max and *)
(*                                      inserts them one by one            *)
(* The two stores are modelled by their contents: the source table is a    *)
(* set of rows, the destination table a bag of rows (Snowflake enforces no *)
(* primary key).  A row is a function from column names to values.         *)
(***************************************************************************)
EXTENDS Integers, Sequences, FiniteSets, Bags, TLC

(* ------------------------------ bounds --------------------------------- *)

\* primary keys of the source rows range over 0..MaxKey
MaxKey == 2

\* values of the non-key column; disjoint from the keys so that a value
\* landing in the wrong column is visible
Payloads == {10}

\* table_names (line 64), cut down to two of the seven
Tables == {"estados", "clientes"}

\* DAG runs of one table that may be in flight together
Slots == {1, 2}

Keys == 0..MaxKey

\* the columns of a replicated table: "ID" stands for ID_<table> (line 119)
PkCol == "ID"
ValCol == "val"
TableColumns == {PkCol, ValCol}

\* Python's None: the result of MAX over no rows, and an XCom never pushed
None == -1

\* default_args['retries'] (line 29): a failed task is not run again
RetriesOnce == 0 + 1
Retries == 0

\* the connections and cursors the two tasks acquire  (lines 86-87, 117-118,
\* 129-130)
SfConn == "sf_conn"
SfCursor == "sf_cursor"
PgConn == "pg_conn"
PgCursor == "pg_cursor"

VARIABLES
    srcKind,   \* srcKind[t]:  "ok" | "missing"       the table in Postgres
    source,    \* source[t]:   set of rows of the table in Postgres
    destKind,  \* destKind[t]: "ok" | "missing" | "nopk"  the table in Snowflake
    dest,      \* dest[t]:     bag of rows of the table in Snowflake
    run,       \* run[<<t, s>>]: the DAG run of table t in slot s
    prev,      \* prev[t]:     history: how the previous run of t ended
    maxWm      \* maxWm[t]:    history: greatest watermark an earlier run read

vars == <<srcKind, source, destKind, dest, run, prev, maxWm>>

Runs == Tables \X Slots

(* ------------------------------ helpers -------------------------------- *)

Range(f) == {f[i] : i \in DOMAIN f}

Max(S) == CHOOSE x \in S : \A y \in S : y <= x

\* all orders in which a query without ORDER BY may return the set S
Perms(S) == {f \in [1..Cardinality(S) -> S] : Range(f) = S}

IndexOf(c, cols) == CHOOSE i \in 1..Len(cols) : cols[i] = c

IdleRun ==
    [pc |-> "idle", wm |-> None, columns |-> <<>>, rows |-> <<>>,
     inserted |-> 0, err |-> "none", at |-> "none", snap |-> {},
     attempt |-> 0, held |-> {}]

NoPrev ==
    [outcome |-> "none", wm |-> None, inserted |-> 0, at |-> "none", snap |-> {}]

Finished(r) == run[r].pc \in {"idle", "done", "failed"}

(* ----------------------- get_max_primary_key --------------------------- *)

\* SELECT MAX(ID_<table>) FROM <table>; fetchone()[0]  (lines 88-89)
SqlMaxWrongAggregate(d) ==
    IF BagToSet(d) = {} THEN None
    ELSE -Max({-row[PkCol] : row \in BagToSet(d)})
SqlMax(d) ==
    IF BagToSet(d) = {} THEN None
    ELSE Max({row[PkCol] : row \in BagToSet(d)})

\* return max_id if max_id is not None else 0  (line 90)
ReturnedWatermarkNoDefault(max_id) == max_id
ReturnedWatermark(max_id) == IF max_id # None THEN max_id ELSE 0

\* the statement of line 88 is accepted only by a table that exists and has
\* the column ID_<table>; otherwise cursor.execute raises
ReaderStatementSoftDefault(kind) == TRUE
ReaderStatementOk(kind) == kind = "ok"

(* ---------------------------- task wiring ----------------------------- *)

\* the table a task of table t works on: table_name is passed to the task as
\* an argument where the loop binds it (lines 135-136), not read from the
\* loop variable when the task runs
TaskTableLateBound(t) == "clientes"
TaskTable(t) == t

\* load_data_<t> takes the value get_max_id_<t> returned (line 136), so it
\* starts only once that task has returned
UpstreamIgnored(r) == run[r].pc \in {"start", "read"}
UpstreamDone(r) == run[r].pc = "read"

\* what leaving the with blocks (lines 86-87, 117-118, 129-130) may leave
\* open of the resources held: the Snowflake connection and both cursors are
\* closed by their context managers; the context manager of a psycopg2
\* connection, which PostgresHook.get_conn() returns, ends the transaction
\* only and leaves the connection open, that of a psycopg 3 connection
\* closes it
AfterWithExit(held) == {held \cap {PgConn}, {}}

(* ----------------------- load_incremental_data ------------------------- *)

\* the extraction statement of line 126 is accepted only for a table that
\* exists in the source; with no table (and so no discovered column) it raises
ExtractStatementDegenerate(kind) == TRUE
ExtractStatementOk(kind) == kind = "ok"

\* the column list of the extraction statement (line 126: columns_list_str)
SelectColumns(columns) == columns

\* the column list of the INSERT statement (line 131: columns_list_str)
InsertColumnsReversed(columns) ==
    [i \in 1..Len(columns) |-> columns[Len(columns) + 1 - i]]
InsertColumns(columns) == columns

\* ', '.join(['%s'] * len(columns))  (line 124)
Placeholders(columns) == [i \in 1..Len(columns) |-> "%s"]

\* WHERE ID_<table> > max_id  (line 126)
DeltaInclusive(rows, max_id) == {row \in rows : row[PkCol] >= max_id}
Delta(rows, max_id) == {row \in rows : row[PkCol] > max_id}

\* the tuple the extraction returns for a source row under a projection
Project(row, columns) == [i \in 1..Len(columns) |-> row[columns[i]]]

\* the destination row INSERT INTO t (columns) VALUES (placeholders) makes of
\* a tuple: the i-th value goes to the i-th named column  (lines 131-133)
BuildRow(columns, tuple) ==
    [c \in Range(columns) |-> tuple[IndexOf(c, columns)]]

\* sf_cursor.execute(insert_query, row) appends one row  (line 133)
AppendRowLost(d, row) == d
AppendRowOverwrite(d, row) == SetToBag({row})
AppendRow(d, row) == d (+) SetToBag({row})

\* the destination after an exception leaves the insertion loop (lines
\* 129-133): every executed INSERT was committed on its own (the connection
\* is in autocommit), so leaving the with block takes nothing back
DestOnErrorTruncated(d) == EmptyBag
DestOnError(d) == d

(* ------------------------------ actions -------------------------------- *)

Row(k, p) == [c \in TableColumns |-> IF c = PkCol THEN k ELSE p]

\* the first position of the task that is running at position pc
TaskEntry(pc) == IF pc = "start" THEN "start" ELSE "read"

\* an exception leaves the running task with the resources h still open: the
\* task instance fails, or is run again from its start while it has retries
\* left (default_args, lines 23-31)
FailedRun(r, kind, h) ==
    IF run[r].attempt < Retries
    THEN [run EXCEPT ![r].pc = TaskEntry(run[r].pc), ![r].columns = <<>>,
                     ![r].rows = <<>>, ![r].inserted = 0, ![r].held = h,
                     ![r].attempt = @ + 1]
    ELSE [run EXCEPT ![r].pc = "failed", ![r].err = kind,
                     ![r].at = run[r].pc, ![r].held = h]

Summary(r) ==
    [outcome |-> run[r].pc, wm |-> run[r].wm, inserted |-> run[r].inserted,
     at |-> run[r].at, snap |-> run[r].snap]

\* the stores before the first run: the tables hold no row yet; a table may
\* be missing in a store, or lack its key column in the destination
Init ==
    /\ srcKind \in [Tables -> {"ok", "missing"}]
    /\ destKind \in [Tables -> {"ok", "missing", "nopk"}]
    /\ source = [t \in Tables |-> {}]
    /\ dest = [t \in Tables |-> EmptyBag]
    /\ run = [r \in Runs |-> IdleRun]
    /\ prev = [t \in Tables |-> NoPrev]
    /\ maxWm = [t \in Tables |-> None]

\* the operational system appends a row whose key is above every key so far
AddSourceRow(t) ==
    /\ srcKind[t] = "ok"
    /\ \E k \in Keys, p \in Payloads :
        /\ \A row \in source[t] : row[PkCol] < k
        /\ source' = [source EXCEPT ![t] = @ \cup {Row(k, p)}]
    /\ UNCHANGED <<srcKind, destKind, dest, run, prev, maxWm>>

\* the scheduler starts a DAG run of table t in slot s  (lines 135-136)
StartRun(t, s) ==
    LET r == <<t, s>> IN
    /\ Finished(r)
    /\ run' = [run EXCEPT ![r] = [IdleRun EXCEPT !.pc = "start"]]
    /\ prev' = [prev EXCEPT ![t] = IF run[r].pc = "idle" THEN @ ELSE Summary(r)]
    /\ maxWm' = [maxWm EXCEPT ![t] = IF run[r].wm > @ THEN run[r].wm ELSE @]
    /\ UNCHANGED <<srcKind, source, destKind, dest>>

\* task get_max_id_<table>  (lines 86-90)
get_max_primary_key(t, s) ==
    LET r == <<t, s>> IN
    /\ run[r].pc = "start"
    /\ \E h \in AfterWithExit({SfConn, SfCursor}) :
        IF ReaderStatementOk(destKind[TaskTable(t)])
        THEN run' = [run EXCEPT
                       ![r].pc = "read",
                       ![r].attempt = 0,
                       ![r].held = h,
                       ![r].wm = ReturnedWatermark(SqlMax(dest[TaskTable(t)]))]
        ELSE run' = FailedRun(r, "sql", h)
    /\ UNCHANGED <<srcKind, source, destKind, dest, prev, maxWm>>

\* column discovery  (lines 117-124); the catalog query has no ORDER BY
discover_columns(t, s) ==
    LET r == <<t, s>> IN
    /\ UpstreamDone(r)
    /\ \E columns \in (IF srcKind[TaskTable(t)] = "ok"
                        THEN Perms(TableColumns) ELSE {<<>>}) :
        run' = [run EXCEPT ![r].pc = "cols", ![r].columns = columns,
                           ![r].held = {PgConn, PgCursor}]
    /\ UNCHANGED <<srcKind, source, destKind, dest, prev, maxWm>>

\* extraction  (lines 126-127); the query has no ORDER BY, so fetchall() may
\* return the matching rows in any order
extract_rows(t, s) ==
    LET r == <<t, s>> IN
    /\ run[r].pc = "cols"
    /\ IF ExtractStatementOk(srcKind[TaskTable(t)])
       THEN \E order \in Perms(Delta(source[TaskTable(t)], run[r].wm)) :
              run' = [run EXCEPT
                        ![r].pc = "rows",
                        ![r].snap = source[TaskTable(t)],
                        ![r].rows = [i \in 1..Len(order) |->
                            Project(order[i], SelectColumns(run[r].columns))]]
       ELSE \E h \in AfterWithExit(run[r].held) : run' = FailedRun(r, "sql", h)
    /\ UNCHANGED <<srcKind, source, destKind, dest, prev, maxWm>>

\* the Snowflake connection and the INSERT statement  (lines 129-131)
open_destination(t, s) ==
    LET r == <<t, s>> IN
    /\ run[r].pc = "rows"
    /\ run' = [run EXCEPT ![r].pc = "open", ![r].held = @ \cup {SfConn, SfCursor}]
    /\ UNCHANGED <<srcKind, source, destKind, dest, prev, maxWm>>

\* one turn of the insertion loop  (lines 132-133)
insert_row(t, s) ==
    LET r == <<t, s>> IN
    /\ run[r].pc = "open"
    /\ run[r].inserted < Len(run[r].rows)
    /\ dest' = [dest EXCEPT ![TaskTable(t)] =
                  AppendRow(@, BuildRow(InsertColumns(run[r].columns),
                                        run[r].rows[run[r].inserted + 1]))]
    /\ run' = [run EXCEPT ![r].inserted = @ + 1]
    /\ UNCHANGED <<srcKind, source, destKind, prev, maxWm>>

\* the loop is exhausted and the task returns  (lines 132-133)
finish_load(t, s) ==
    LET r == <<t, s>> IN
    /\ run[r].pc = "open"
    /\ run[r].inserted = Len(run[r].rows)
    /\ \E h \in AfterWithExit(run[r].held) :
        run' = [run EXCEPT ![r].pc = "done", ![r].held = h]
    /\ UNCHANGED <<srcKind, source, destKind, dest, prev, maxWm>>

\* a store call raises (store unreachable, statement rejected): the
\* exception leaves the task, nothing catches it  (lines 86-90, 117-133)
store_error(t, s) ==
    LET r == <<t, s>> IN
    /\ \/ run[r].pc \in {"start", "read", "cols", "rows"}
       \/ run[r].pc = "open" /\ run[r].inserted < Len(run[r].rows)
    /\ \E h \in AfterWithExit(run[r].held) : run' = FailedRun(r, "store", h)
    /\ dest' = [dest EXCEPT ![TaskTable(t)] =
                  IF run[r].pc = "open" THEN DestOnError(@) ELSE @]
    /\ UNCHANGED <<srcKind, source, destKind, prev, maxWm>>

\* table u has not been touched: nothing was added to it, no run of it began
Pristine(u) ==
    /\ source[u] = {}
    /\ \A s \in Slots : run[<<u, s>>].pc = "idle"

\* only table t is in use
Alone(t) == \A u \in Tables \ {t} : Pristine(u)

\* one table's pipeline on its own, one run after the other
Next ==
    \E t \in Tables :
        \/ Alone(t) /\ AddSourceRow(t)
        \/ Alone(t) /\ Finished(<<t, 1>>) /\ StartRun(t, 1)
        \/ get_max_primary_key(t, 1)
        \/ discover_columns(t, 1)
        \/ extract_rows(t, 1)
        \/ open_destination(t, 1)
        \/ insert_row(t, 1)
        \/ finish_load(t, 1)
        \/ store_error(t, 1)

Spec == Init /\ [][Next]_vars

(* ------------------------- notions of the claims ----------------------- *)

\* the run of table t the sequential specification uses
Cur(t) == run[<<t, 1>>]

\* the extraction of the current run of t has returned
HasExtracted(t) ==
    \/ Cur(t).pc \in {"rows", "open", "done"}
    \/ Cur(t).pc = "failed" /\ Cur(t).at \in {"rows", "open"}

\* the watermark reader of the current run of t has returned a value
HasWatermark(t) == Cur(t).wm # None

\* the source rows the fetched tuples stand for, read through the select list
Extracted(t) ==
    {[c \in TableColumns |-> Cur(t).rows[i][IndexOf(c, Cur(t).columns)]] :
        i \in 1..Len(Cur(t).rows)}

DestRows(t) == BagToSet(dest[t])

DestKeys(t) == {row[PkCol] : row \in DestRows(t)}

SnapKeys(t) == {row[PkCol] : row \in Cur(t).snap}

\* no insertion of the current run has touched the destination yet
NothingInsertedYet(t) ==
    /\ HasWatermark(t)
    /\ Cur(t).inserted = 0

\* the destination table was empty when the current run read its watermark
\* (runs of a table do not overlap here, so all its rows are this run's)
DestWasEmpty(t) == BagCardinality(dest[t]) = Cur(t).inserted

(* ------------------------------- C1 ------------------------------------ *)

\* C1: once the extraction of a run has returned, the rows it fetched are
\* exactly the rows the source table held at that moment whose primary key is
\* strictly greater than the watermark the loader was given, each fetched once.
C1_ExactDelta ==
    \A t \in Tables :
        HasExtracted(t) =>
            /\ Extracted(t) = {row \in Cur(t).snap : row[PkCol] > Cur(t).wm}
            /\ Len(Cur(t).rows) = Cardinality(Extracted(t))

\* a run extracted with a watermark that splits the source: a row at the
\* watermark is left out and a row above it is fetched
C1_Witness ==
    \E t \in Tables :
        /\ HasExtracted(t)
        /\ Cur(t).wm \in SnapKeys(t)
        /\ Cur(t).wm > 0
        /\ Extracted(t) # {}

(* ------------------------------- C2 ------------------------------------ *)

\* C2: for a destination table that exists, the value the watermark reader
\* returned is the greatest ID_<table> over the rows of the destination table,
\* and 0 when the table holds no row (stated while the destination is still
\* as the reader saw it: before the run's first insertion).
C2_ReaderResult ==
    \A t \in Tables :
        NothingInsertedYet(t) =>
            IF DestRows(t) = {}
            THEN Cur(t).wm = 0
            ELSE /\ Cur(t).wm \in DestKeys(t)
                 /\ \A k \in DestKeys(t) : k <= Cur(t).wm

\* the reader returned the greatest of several keys
C2_Witness ==
    \E t \in Tables :
        /\ Cur(t).pc = "read"
        /\ Cardinality(DestKeys(t)) >= 2
        /\ Cur(t).wm = Max(DestKeys(t))

(* ------------------------------- C3 ------------------------------------ *)

\* the previous run of t succeeded and the source table has gained no row
\* between its extraction and the extraction of the current run
SecondOfTwoRuns(t) ==
    /\ prev[t].outcome = "done"
    /\ HasExtracted(t)
    /\ Cur(t).snap = prev[t].snap

\* C3: when a run follows a successful run and no source row was added in
\* between, the watermark it read is the source's greatest primary key, its
\* extraction is empty, it inserts nothing, and no insertion of it fails (the
\* empty batch is not an error).
C3_IdempotentNoOp ==
    \A t \in Tables :
        SecondOfTwoRuns(t) =>
            /\ Cur(t).snap # {} => Cur(t).wm = Max(SnapKeys(t))
            /\ Cur(t).rows = <<>>
            /\ Cur(t).inserted = 0
            /\ ~(Cur(t).pc = "failed" /\ Cur(t).at = "open")

\* a run that loaded rows, followed by a run that completed
C3_Witness ==
    \E t \in Tables :
        /\ SecondOfTwoRuns(t)
        /\ prev[t].inserted > 0
        /\ Cur(t).pc = "done"

(* ------------------------------- C4 ------------------------------------ *)

\* C4: the watermark a run reads is greater than or equal to the watermark
\* every earlier run of the same table read (maxWm[t] is the greatest of them).
C4_MonotonicWatermark ==
    \A t \in Tables :
        HasWatermark(t) => Cur(t).wm >= maxWm[t]

\* a later run read a strictly greater watermark than every run before it,
\* after a run that failed in its insertion loop
C4_Witness ==
    \E t \in Tables :
        /\ HasWatermark(t)
        /\ maxWm[t] # None
        /\ Cur(t).wm > maxWm[t]
        /\ prev[t].outcome = "failed"
        /\ prev[t].inserted > 0

(* ------------------------------- C5 ------------------------------------ *)

\* C5 as stated: a run that found the destination table empty read the
\* watermark 0 and, once it has completed, the destination holds exactly the
\* rows the source held at the extraction.
C5_AsStated ==
    \A t \in Tables :
        (Cur(t).pc = "done" /\ DestWasEmpty(t)) =>
            /\ Cur(t).wm = 0
            /\ dest[t] = SetToBag(Cur(t).snap)

\* C5 amended: a run that found the destination table empty read the
\* watermark 0 and, once it has completed, the destination holds exactly the
\* source rows whose primary key is greater than 0, each once; so it holds
\* exactly the source's rows when every source key is positive.
C5_EmptyTableBootstrap ==
    \A t \in Tables :
        (Cur(t).pc = "done" /\ DestWasEmpty(t)) =>
            /\ Cur(t).wm = 0
            /\ dest[t] = SetToBag({row \in Cur(t).snap : row[PkCol] > 0})
            /\ (\A k \in SnapKeys(t) : k > 0) => dest[t] = SetToBag(Cur(t).snap)

\* a full initial load of several rows
C5_Witness ==
    \E t \in Tables :
        /\ Cur(t).pc = "done"
        /\ DestWasEmpty(t)
        /\ Cur(t).inserted >= 2
        /\ dest[t] = SetToBag(Cur(t).snap)

(* ------------------------------- C6 ------------------------------------ *)

\* C6 as stated: when the destination table does not exist, the watermark
\* reader, once it has run without a connectivity failure, has returned 0 and
\* the run goes on to load every source row.
C6_AsStated ==
    \A t \in Tables :
        (destKind[t] = "missing" /\ Cur(t).pc \notin {"idle", "start"}
                                 /\ Cur(t).err # "store") =>
            /\ Cur(t).wm = 0
            /\ Cur(t).pc # "failed"
            /\ Cur(t).pc = "done" => \A row \in Cur(t).snap : row \in DestRows(t)

\* C6 amended: when the destination table does not exist, the watermark
\* reader fails: it returns no watermark, the loader of that run never starts
\* and no row is inserted.
C6_MissingDestinationFails ==
    \A t \in Tables :
        destKind[t] = "missing" =>
            /\ Cur(t).pc \in {"idle", "start", "failed"}
            /\ Cur(t).pc = "failed" => Cur(t).at = "start"
            /\ Cur(t).columns = <<>>
            /\ Cur(t).rows = <<>>
            /\ Cur(t).inserted = 0
            /\ dest[t] = EmptyBag

\* the reader failed on the missing table while the source had rows to load
C6_Witness ==
    \E t \in Tables :
        /\ destKind[t] = "missing"
        /\ Cur(t).pc = "failed"
        /\ Cur(t).err = "sql"
        /\ source[t] # {}

(* ------------------------------- C7 ------------------------------------ *)

\* C7: for a destination table that does not exist or lacks the column
\* ID_<table>, the watermark reader never returns a value (no default such as
\* 0): a run that has left its start is failed, at the reader.
C7_HardFailureOnBadTable ==
    \A t \in Tables :
        destKind[t] \in {"missing", "nopk"} =>
            /\ ~HasWatermark(t)
            /\ Cur(t).pc \notin {"idle", "start"} =>
                 (Cur(t).pc = "failed" /\ Cur(t).at = "start")

\* the reader's statement was rejected for the missing key column
C7_Witness ==
    \E t \in Tables :
        /\ destKind[t] = "nopk"
        /\ Cur(t).pc = "failed"
        /\ Cur(t).at = "start"
        /\ Cur(t).err = "sql"

(* ------------------------------- C8 ------------------------------------ *)

\* C8: the column list of the extraction and the column list of the INSERT
\* are the same sequence, as long as the placeholder list, and every row in
\* the destination equals a source row column by column: each value landed in
\* the column it was read from.
C8_ColumnFidelity ==
    \A t \in Tables :
        /\ SelectColumns(Cur(t).columns) = InsertColumns(Cur(t).columns)
        /\ Len(Placeholders(Cur(t).columns)) = Len(InsertColumns(Cur(t).columns))
        /\ \A row \in DestRows(t) :
              /\ DOMAIN row = TableColumns
              /\ row \in source[t]

\* rows were inserted under a discovered order that is not the table's own
C8_Witness ==
    \E t \in Tables :
        /\ Cur(t).columns = <<ValCol, PkCol>>
        /\ Cur(t).inserted >= 1
        /\ DestRows(t) # {}

(* ------------------------------- C9 ------------------------------------ *)

\* the previous run of t failed in its insertion loop after inserting some
\* rows, the source gained no row since its extraction, and the current run
\* has completed
RecoveredAfterPartialFailure(t) ==
    /\ prev[t].outcome = "failed"
    /\ prev[t].at = "open"
    /\ prev[t].inserted > 0
    /\ Cur(t).pc = "done"
    /\ Cur(t).snap = prev[t].snap

\* C9 as stated: after a run that failed partway through its insertions, the
\* following run inserts exactly the rows the failed run did not write, and
\* once it has succeeded every source row is in the destination.
C9_AsStated ==
    \A t \in Tables :
        RecoveredAfterPartialFailure(t) =>
            /\ Cur(t).inserted =
                  Cardinality({row \in prev[t].snap : row[PkCol] > prev[t].wm})
                    - prev[t].inserted
            /\ \A row \in Cur(t).snap : row \in DestRows(t)

(* ------------------------------- C10 ----------------------------------- *)

\* the previous run of t read a watermark and failed, and the current run
\* has read its watermark
AfterFailedRun(t) ==
    /\ prev[t].outcome = "failed"
    /\ prev[t].wm # None
    /\ HasWatermark(t)

\* C10 as stated: the watermark read by the run that follows a failed run
\* equals the watermark the failed run read.
C10_AsStated ==
    \A t \in Tables :
        AfterFailedRun(t) => Cur(t).wm = prev[t].wm

\* C10 amended: the watermark read by the run that follows a failed run
\* equals the failed run's watermark when the failed run had inserted no row;
\* when it had inserted rows before failing, the next watermark is the
\* greatest key among them, strictly greater than the failed run's.
C10_WatermarkAfterFailedRun ==
    \A t \in Tables :
        AfterFailedRun(t) =>
            /\ prev[t].inserted = 0 => Cur(t).wm = prev[t].wm
            /\ prev[t].inserted > 0 =>
                  /\ Cur(t).wm > prev[t].wm
                  /\ Cur(t).wm \in {row[PkCol] : row \in prev[t].snap}

\* the run after a run that failed partway through its insertions
C10_Witness ==
    \E t \in Tables :
        /\ AfterFailedRun(t)
        /\ prev[t].at = "open"
        /\ prev[t].inserted > 0
        /\ Cur(t).pc = "read"

(* ------------------------------- C12 ----------------------------------- *)

\* the loader of the current run of t has begun
LoaderStarted(t) ==
    \/ Cur(t).pc \in {"cols", "rows", "open", "done"}
    \/ Cur(t).pc = "failed" /\ Cur(t).at \in {"read", "cols", "rows", "open"}

\* C12: within a run, the loader begins only after the watermark reader has
\* returned; an insertion happens only after the extraction has returned the
\* whole batch of rows above the watermark; and the watermark the loader
\* compares with is the one the reader of that run returned.
C12_StepOrdering ==
    \A t \in Tables :
        /\ LoaderStarted(t) => HasWatermark(t)
        /\ Cur(t).held # {} => HasWatermark(t)
        /\ HasExtracted(t) =>
              \A row \in Extracted(t) : row[PkCol] > Cur(t).wm
        /\ Cur(t).inserted > 0 =>
              /\ HasExtracted(t)
              /\ Cur(t).inserted <= Len(Cur(t).rows)
              /\ Len(Cur(t).rows) =
                   Cardinality({row \in Cur(t).snap : row[PkCol] > Cur(t).wm})

\* a run in the middle of its insertion loop
C12_Witness ==
    \E t \in Tables :
        /\ Cur(t).pc = "open"
        /\ Cur(t).inserted >= 1
        /\ Cur(t).inserted < Len(Cur(t).rows)

(* ------------------------------- C13 ----------------------------------- *)

\* the current run of t failed inside its insertion loop
FailedInLoop(t) == Cur(t).pc = "failed" /\ Cur(t).at = "open"

\* the source rows behind the tuples the current run of t has inserted
FirstInserted(t) ==
    {[c \in TableColumns |-> Cur(t).rows[i][IndexOf(c, Cur(t).columns)]] :
        i \in 1..Cur(t).inserted}

\* the destination rows of t above the watermark of the current run
AboveWatermark(t) ==
    [row \in {x \in DestRows(t) : x[PkCol] > Cur(t).wm} |-> CopiesIn(row, dest[t])]

\* C13: when the insertion of the k-th row of a batch fails, the k-1 rows
\* inserted before it are in the destination, no other row of the batch is,
\* the task is failed (the error reached the scheduler), and the failed run
\* inserts nothing more and is not run again: the next thing that happens to
\* the table is a new DAG run.
C13_PartialBatchFailure ==
    [][\A t \in Tables :
          FailedInLoop(t) =>
              /\ Cur(t).inserted < Len(Cur(t).rows)
              /\ AboveWatermark(t) = SetToBag(FirstInserted(t))
              /\ Cur(t).err = "store"
              /\ dest'[t] = dest[t]
              /\ run'[<<t, 1>>].pc \in {"failed", "start"}]_vars

\* the second insertion of a batch failed after the first was committed
C13_Witness ==
    \E t \in Tables :
        /\ FailedInLoop(t)
        /\ Cur(t).inserted >= 1
        /\ BagCardinality(dest[t]) >= 1

(* ------------------------------- C14 ----------------------------------- *)

\* column discovery of the current run of t returned no column
ZeroColumnsDiscovered(t) ==
    /\ Cur(t).columns = <<>>
    /\ \/ Cur(t).pc \in {"cols", "rows", "open", "done"}
       \/ Cur(t).pc = "failed" /\ Cur(t).at \in {"cols", "rows", "open"}

\* C14: a run whose column discovery returned no column never gets past the
\* extraction: it has inserted nothing and it does not complete; once it has
\* left the discovery it is failed, with the error of a store call.
C14_ZeroColumnsFail ==
    \A t \in Tables :
        ZeroColumnsDiscovered(t) =>
            /\ Cur(t).pc \in {"cols", "failed"}
            /\ Cur(t).inserted = 0
            /\ Cur(t).pc = "failed" =>
                 (Cur(t).at = "cols" /\ Cur(t).err \in {"sql", "store"})

\* the extraction statement was rejected for the table absent from the source
C14_Witness ==
    \E t \in Tables :
        /\ ZeroColumnsDiscovered(t)
        /\ Cur(t).pc = "failed"
        /\ Cur(t).err = "sql"
        /\ destKind[t] = "ok"

(* ------------------------------- C15 ----------------------------------- *)

\* no task of the current run of t is executing
NoTaskRunning(t) == Cur(t).pc \in {"idle", "start", "read", "done", "failed"}

\* C15 as stated: once a call of get_max_primary_key or load_incremental_data
\* has returned or failed, no connection or cursor it opened is still open.
C15_AsStated ==
    \A t \in Tables :
        NoTaskRunning(t) => Cur(t).held = {}

(* ------------------------------- C16 ----------------------------------- *)

\* C16: every step leaves each destination table with all the rows it had
\* (rows are only added); a step of a run changes no source table and drops
\* or renames no table; and the step of the watermark reader changes no
\* destination table either.
C16_Frame ==
    [][/\ \A t \in Tables : dest[t] \sqsubseteq dest'[t]
       /\ run' # run =>
             (source' = source /\ srcKind' = srcKind /\ destKind' = destKind)
       /\ \A t \in Tables :
             (Cur(t).pc = "start" /\ run'[<<t, 1>>].pc # "start") =>
                 dest' = dest]_vars

\* a run added rows to a destination table that held rows of an earlier run
C16_Witness ==
    \E t \in Tables :
        /\ prev[t].inserted >= 1
        /\ Cur(t).inserted >= 1
        /\ BagCardinality(dest[t]) >= 2

(* ------------------------------- C17 ----------------------------------- *)

\* C17 as stated, for the source rows with a key above 0: between runs, every
\* such row whose key is at most the destination's greatest key is in the
\* destination.
C17_AsStated ==
    \A t \in Tables :
        (Finished(<<t, 1>>) /\ DestKeys(t) # {}) =>
            \A row \in source[t] :
                (row[PkCol] > 0 /\ row[PkCol] <= Max(DestKeys(t))) =>
                    row \in DestRows(t)

(* ------------------------------- C18 ----------------------------------- *)

\* C18: with runs of a table one after the other, every destination row is
\* there once and no two destination rows have the same primary key.
C18_NoDuplicates ==
    \A t \in Tables :
        /\ \A row \in DestRows(t) : CopiesIn(row, dest[t]) = 1
        /\ \A x, y \in DestRows(t) : x[PkCol] = y[PkCol] => x = y

\* a run completed the load a partially failed run had begun
C18_Witness ==
    \E t \in Tables :
        /\ prev[t].outcome = "failed"
        /\ prev[t].at = "open"
        /\ prev[t].inserted >= 1
        /\ Cur(t).pc = "done"
        /\ Cur(t).inserted >= 1
        /\ BagCardinality(dest[t]) >= 2

(* ------------------ pipelines of several tables together --------------- *)

\* the rows a source table may hold
AllRows == {Row(k, p) : k \in Keys, p \in Payloads}

\* a source table: its primary keys are unique and, here, without gaps
SourceStates ==
    {S \in SUBSET AllRows :
        /\ \A x, y \in S : x[PkCol] = y[PkCol] => x = y
        /\ \A x \in S : \A k \in 0..x[PkCol] : \E y \in S : y[PkCol] = k}

\* a destination table left by earlier runs: rows of the source, each once
DestStates == {SetToBag(D) : D \in SUBSET AllRows}

\* both tables exist in both stores; each destination table holds some of the
\* rows earlier runs could load from its source table (those with a key
\* above 0); no run is in flight
InitPar ==
    /\ srcKind = [t \in Tables |-> "ok"]
    /\ destKind = [t \in Tables |-> "ok"]
    /\ source \in [Tables -> SourceStates]
    /\ dest \in [Tables -> DestStates]
    /\ \A t \in Tables :
          \A row \in BagToSet(dest[t]) : row \in source[t] /\ row[PkCol] > 0
    /\ run = [r \in Runs |-> IdleRun]
    /\ prev = [t \in Tables |-> NoPrev]
    /\ maxWm = [t \in Tables |-> None]

\* one DAG run: the pipelines of all tables, their tasks interleaved as the
\* executor pleases  (lines 66-136: no dependency between tables)
NextPar ==
    \E t \in Tables :
        \/ run[<<t, 1>>].pc = "idle" /\ StartRun(t, 1)
        \/ get_max_primary_key(t, 1)
        \/ discover_columns(t, 1)
        \/ extract_rows(t, 1)
        \/ open_destination(t, 1)
        \/ insert_row(t, 1)
        \/ finish_load(t, 1)
        \/ store_error(t, 1)

SpecPar == InitPar /\ [][NextPar]_vars

(* ------------------------------- C11 ----------------------------------- *)

\* what the pipeline of t does on its own: the watermark it read is the
\* greatest key of its own destination table (0 if empty), and once it has
\* completed, the rows of its destination above that watermark are the rows
\* of its own source above it, each once
OwnResult(t) ==
    /\ NothingInsertedYet(t) =>
          Cur(t).wm = (IF DestKeys(t) = {} THEN 0 ELSE Max(DestKeys(t)))
    /\ Cur(t).pc = "done" =>
          /\ Cur(t).snap = source[t]
          /\ AboveWatermark(t) =
                SetToBag({row \in source[t] : row[PkCol] > Cur(t).wm})
          /\ BagCardinality(dest[t]) - Cur(t).inserted =
                Cardinality({row \in DestRows(t) : row[PkCol] <= Cur(t).wm})

\* C11: under every interleaving of the pipelines of the tables, each
\* pipeline gives its table the result it gives on its own, a step of the
\* pipeline of t changes nothing of another table, and the destination of t
\* changes only in steps of the pipeline of t.
C11_CrossTableIndependence ==
    [][\A t \in Tables :
          /\ OwnResult(t)
          /\ OwnResult(t)'
          /\ run'[<<t, 1>>] # run[<<t, 1>>] =>
                \A u \in Tables \ {t} :
                    /\ dest'[u] = dest[u]
                    /\ source'[u] = source[u]
                    /\ run'[<<u, 1>>] = run[<<u, 1>>]
          /\ dest'[t] # dest[t] => run'[<<t, 1>>] # run[<<t, 1>>]]_vars

\* the insertion loops of all tables are under way at the same time
C11_Witness ==
    \A t \in Tables :
        /\ Cur(t).pc = "open"
        /\ Cur(t).inserted >= 1
        /\ Cur(t).wm >= 1

(* --------------------- overlapping runs of a table --------------------- *)

\* no run of another table than t has begun
OnlyRunning(t) ==
    \A u \in Tables \ {t} : \A s \in Slots : run[<<u, s>>].pc = "idle"

\* two DAG runs of one table, one per slot, their tasks interleaved: the DAG
\* (lines 33-39) sets no max_active_runs, so a run may begin while the one
\* before it is still in its insertion loop
NextOverlap ==
    \E t \in Tables, s \in Slots :
        \/ OnlyRunning(t) /\ run[<<t, s>>].pc = "idle" /\ StartRun(t, s)
        \/ get_max_primary_key(t, s)
        \/ discover_columns(t, s)
        \/ extract_rows(t, s)
        \/ open_destination(t, s)
        \/ insert_row(t, s)
        \/ finish_load(t, s)
        \/ store_error(t, s)

SpecOverlap == InitPar /\ [][NextOverlap]_vars

(* ------------------------------- C19 ----------------------------------- *)

\* C19 as stated: with runs of a table that overlap, under every
\* interleaving the destination table has as many rows as it has distinct
\* primary keys: no key is in more than one row.
C19_AsStated ==
    \A t \in Tables :
        BagCardinality(dest[t]) = Cardinality(DestKeys(t))

====
